---- MODULE Spec2Model ----
(***************************************************************************)
(* Email drip campaign API (src/main.py): request validation, the nested   *)
(* generation loop over accounts x email steps x tones with one blocking   *)
(* external call each, error propagation, and the CSV flattening.          *)
(*                                                                         *)
(* Field values (account_name, industry, ...) are strings.  A formatted    *)
(* text (an f-string: a prompt, an error detail) is the sequence of its    *)
(* fragments, literal pieces and interpolated values in order, so that     *)
(* "the text names X" is "X is one of its fragments".                      *)
(***************************************************************************)
EXTENDS Integers, Sequences, FiniteSets, TLC

\* ------------------------------------------------------------- bounds
MaxAccounts == 2      \* accounts in a request that is generated
MaxEmails == 2        \* number_of_emails in a request that is generated
MaxRequests == 2      \* requests served one after another

\* ------------------------------------------------- program constants
CONTACT_NAME_MAX == 100   \* Contact.name max_length
JOB_TITLE_MAX == 100      \* Contact.job_title max_length
ACCOUNT_NAME_MAX == 200   \* Account.account_name max_length
INDUSTRY_MAX == 100       \* Account.industry max_length
LANGUAGE_MAX == 200       \* Account.language max_length
PAIN_POINTS_MAX == 5      \* Account.pain_points max_items
ACCOUNTS_MAX == 10        \* CampaignRequest.accounts max_items
EMAILS_MAX == 10          \* CampaignRequest.number_of_emails le
HTTP_ERROR == 500         \* status_code of every HTTPException raised

Absent == "(absent)"      \* an optional field the body leaves out
NoRequest == [accounts |-> <<>>, number_of_emails |-> 0]

Range(s) == {s[k] : k \in 1..Len(s)}

RECURSIVE Rep(_, _)
\* the string of n copies of c
Rep(c, n) ==
    IF n = 0 THEN ""
    ELSE IF n % 2 = 0 THEN LET h == Rep(c, n \div 2) IN h \o h
    ELSE c \o Rep(c, n - 1)

\* ------------------------------------------------------ the data model
Groups == {"A", "B"}
Objectives == {"awareness", "nurturing", "upselling"}
Interests == {"high", "medium", "low"}
AccountTones == {"formal", "casual", "enthusiastic", "neutral"}

\* An email address is given split at "@", each piece split at ".":
\* "ana@acme.com" is << <<"ana">>, <<"acme", "com">> >>.
EmailStr(e) ==
    /\ Len(e) = 2
    /\ Len(e[1]) >= 1
    /\ Len(e[2]) >= 2
    /\ \A k \in 1..2 : \A j \in 1..Len(e[k]) : Len(e[k][j]) >= 1

StrField(s, lo, hi) == Len(s) >= lo /\ Len(s) <= hi

\* The set of constraints a contact violates.
ContactErrors(c) ==
    (IF StrField(c.name, 1, CONTACT_NAME_MAX) THEN {} ELSE {"contact.name"})
    \cup (IF EmailStr(c.email) THEN {} ELSE {"contact.email"})
    \cup (IF StrField(c.job_title, 1, JOB_TITLE_MAX) THEN {} ELSE {"contact.job_title"})
    \cup (IF c.group \in Groups \cup {Absent} THEN {} ELSE {"contact.group"})

\* The variant of AccountErrors that forgets max_items on pain_points.
AccountErrors_NoPainMax(a) ==
    (IF StrField(a.account_name, 1, ACCOUNT_NAME_MAX) THEN {} ELSE {"account_name"})
    \cup (IF StrField(a.industry, 1, INDUSTRY_MAX) THEN {} ELSE {"industry"})
    \cup (IF Len(a.pain_points) >= 1 THEN {} ELSE {"pain_points"})
    \cup (IF Len(a.contacts) >= 1 THEN {} ELSE {"contacts"})
    \cup UNION {ContactErrors(a.contacts[k]) : k \in 1..Len(a.contacts)}
    \cup (IF a.campaign_objective \in Objectives THEN {} ELSE {"campaign_objective"})
    \cup (IF a.interest \in Interests \cup {Absent} THEN {} ELSE {"interest"})
    \cup (IF a.tone \in AccountTones \cup {Absent} THEN {} ELSE {"tone"})
    \cup (IF StrField(a.language, 1, LANGUAGE_MAX) THEN {} ELSE {"language"})

\* The set of constraints an account violates.  pain_points is List[str]
\* with min_items and max_items only: its items carry no length constraint.
AccountErrors(a) ==
    (IF StrField(a.account_name, 1, ACCOUNT_NAME_MAX) THEN {} ELSE {"account_name"})
    \cup (IF StrField(a.industry, 1, INDUSTRY_MAX) THEN {} ELSE {"industry"})
    \cup (IF Len(a.pain_points) >= 1 /\ Len(a.pain_points) <= PAIN_POINTS_MAX
          THEN {} ELSE {"pain_points"})
    \cup (IF Len(a.contacts) >= 1 THEN {} ELSE {"contacts"})
    \cup UNION {ContactErrors(a.contacts[k]) : k \in 1..Len(a.contacts)}
    \cup (IF a.campaign_objective \in Objectives THEN {} ELSE {"campaign_objective"})
    \cup (IF a.interest \in Interests \cup {Absent} THEN {} ELSE {"interest"})
    \cup (IF a.tone \in AccountTones \cup {Absent} THEN {} ELSE {"tone"})
    \cup (IF StrField(a.language, 1, LANGUAGE_MAX) THEN {} ELSE {"language"})

\* The variant of RequestErrors that forgets max_items on accounts.
RequestErrors_NoAccountsMax(r) ==
    (IF Len(r.accounts) >= 1 THEN {} ELSE {"accounts"})
    \cup UNION {AccountErrors(r.accounts[k]) : k \in 1..Len(r.accounts)}
    \cup (IF r.number_of_emails > 0 /\ r.number_of_emails <= EMAILS_MAX
          THEN {} ELSE {"number_of_emails"})

\* The set of constraints a request body violates.
RequestErrors(r) ==
    (IF Len(r.accounts) >= 1 /\ Len(r.accounts) <= ACCOUNTS_MAX
     THEN {} ELSE {"accounts"})
    \cup UNION {AccountErrors(r.accounts[k]) : k \in 1..Len(r.accounts)}
    \cup (IF r.number_of_emails > 0 /\ r.number_of_emails <= EMAILS_MAX
          THEN {} ELSE {"number_of_emails"})

Default(v, d) == IF v = Absent THEN d ELSE v

\* The model objects pydantic builds from a valid body: defaults filled in.
ParseContact(c) == [c EXCEPT !.group = Default(c.group, "A")]

ParseAccount(a) ==
    [a EXCEPT !.contacts = [k \in 1..Len(a.contacts) |-> ParseContact(a.contacts[k])],
              !.interest = Default(a.interest, "medium"),
              !.tone = Default(a.tone, "neutral")]

ParseRequest(r) ==
    [r EXCEPT !.accounts = [k \in 1..Len(r.accounts) |-> ParseAccount(r.accounts[k])]]

\* ------------------------------------------------- generation: prompts
\* The two tones of the A/B loop of generate_email_content, in loop order.
Tones_Swapped == <<"casual", "formal">>

Tones_FormalOnly == <<"formal">>

Tones == <<"formal", "casual">>

RECURSIVE Join(_, _)
\* sep.join(items)
Join(sep, items) ==
    IF Len(items) = 0 THEN ""
    ELSE IF Len(items) = 1 THEN items[1]
    ELSE items[1] \o sep \o Join(sep, Tail(items))

\* The variant of Prompt that embeds the account's configured tone.
Prompt_AccountTone(account, email_number, total_emails, tone) ==
    << "Create a personalized email for the following business account:",
       "Company: ", account.account_name,
       "Industry: ", account.industry,
       "Pain Points: ", Join(", ", account.pain_points),
       "Campaign Stage: Email ", ToString(email_number), " of ", ToString(total_emails),
       "Campaign Objective: ", account.campaign_objective,
       "Recipient Job Title: ", account.contacts[1].job_title,
       "Interest: ", account.interest,
       "Tone: ", account.tone,
       "Language: ", account.language,
       "Format the response as valid JSON with keys: subject, body, call_to_action" >>

\* The f-string prompt of generate_email_content.
Prompt(account, email_number, total_emails, tone) ==
    << "Create a personalized email for the following business account:",
       "Company: ", account.account_name,
       "Industry: ", account.industry,
       "Pain Points: ", Join(", ", account.pain_points),
       "Campaign Stage: Email ", ToString(email_number), " of ", ToString(total_emails),
       "Campaign Objective: ", account.campaign_objective,
       "Recipient Job Title: ", account.contacts[1].job_title,
       "Interest: ", account.interest,
       "Tone: ", tone,
       "Language: ", account.language,
       "Format the response as valid JSON with keys: subject, body, call_to_action" >>

\* --------------------------------------- generation: the external call
\* What client.generate can do on the k-th call of a request: raise, or
\* return a text.  A text is given by what eval makes of it: a mapping
\* (form "dict", with its items), a value that is no mapping (form "list"),
\* or nothing at all (form "invalid": eval raises SyntaxError).  The texts of
\* different calls differ, so a variant shows which call produced it.
Keys == <<"subject", "body", "call_to_action">>

FullItems(k) ==
    [subject |-> "Subject " \o ToString(k),
     body |-> "Body " \o ToString(k),
     call_to_action |-> "Action " \o ToString(k)]

Returned(form, items) == [raised |-> FALSE, msg |-> "", form |-> form, items |-> items]

GoodOutcomes(k) ==
    { Returned("dict", FullItems(k)),
      Returned("dict", [key \in {"subject", "body", "call_to_action", "notes"} |->
                            IF key = "notes" THEN "extra" ELSE FullItems(k)[key]]) }

BadOutcomes(k) ==
    { [raised |-> TRUE, msg |-> "service unavailable", form |-> "", items |-> <<>>],
      Returned("invalid", <<>>),
      Returned("list", <<>>),
      Returned("dict", [key \in {"subject", "body"} |-> FullItems(k)[key]]),
      Returned("dict", [key \in {"body", "call_to_action"} |-> FullItems(k)[key]]),
      Returned("dict", <<>>) }

Outcomes(k) == GoodOutcomes(k) \cup BadOutcomes(k)

NoVariant == [subject |-> "", body |-> "", call_to_action |-> ""]

Failed(error) == [ok |-> FALSE, variant |-> NoVariant, error |-> error]

MissingKeys(items) == {k \in 1..Len(Keys) : Keys[k] \notin DOMAIN items}

FirstMissing(items) ==
    Keys[CHOOSE k \in MissingKeys(items) : \A j \in MissingKeys(items) : k <= j]

\* The variant of TryVariant that reads the keys with a default (.get(key, ""))
\* and so accepts a mapping that lacks some of them.
TryVariant_Lenient(out) ==
    IF out.raised THEN Failed(out.msg)
    ELSE IF out.form = "invalid" THEN Failed("invalid syntax")
    ELSE IF out.form = "list"
         THEN Failed("list indices must be integers or slices, not str")
    ELSE [ok |-> TRUE,
          variant |-> [key \in {"subject", "body", "call_to_action"} |->
                          IF key \in DOMAIN out.items THEN out.items[key] ELSE ""],
          error |-> ""]

\* The body of the try block of generate_email_content on one outcome of the
\* call: the EmailVariant built, or str(e) of the exception raised.
TryVariant(out) ==
    IF out.raised THEN Failed(out.msg)
    ELSE IF out.form = "invalid" THEN Failed("invalid syntax")
    ELSE IF out.form = "list"
         THEN Failed("list indices must be integers or slices, not str")
    ELSE IF MissingKeys(out.items) # {}
         THEN Failed("'" \o FirstMissing(out.items) \o "'")
    ELSE [ok |-> TRUE,
          variant |-> [subject |-> out.items["subject"],
                       body |-> out.items["body"],
                       call_to_action |-> out.items["call_to_action"]],
          error |-> ""]

AppendVariant_Front(vs, v) == <<v>> \o vs

\* variants.append(EmailVariant(...))
AppendVariant(vs, v) == Append(vs, v)

\* ------------------------------------------------ errors and responses
VARIABLES
    raw,         \* the body of the request being served
    endpoint,    \* "generate" (/generate-campaigns/) or "export" (/export-campaigns-csv/)
    request,     \* the validated CampaignRequest (contact groups are mutable)
    pc,          \* where the handler is: received, campaign, calling, awaiting, done
    p,           \* generate_campaigns: index of the account being generated
    i,           \* generate_campaign: email_number (the code's i + 1)
    t,           \* generate_email_content: index into Tones
    variants,    \* generate_email_content: variants
    emails,      \* generate_campaign: emails
    campaigns,   \* generate_campaigns: campaigns
    calls,       \* the external calls this request has issued, in order
    outs,        \* what the try block made of each call that has returned
    reply,       \* what the external service did on the latest call that returned
    response,    \* the HTTP response of the request
    str_blank,   \* whether str() of an HTTPException is the empty string
    served       \* requests received so far

vars == <<raw, endpoint, request, pc, p, i, t, variants, emails, campaigns,
          calls, outs, reply, response, str_blank, served>>

Endpoints == {"generate", "export"}

NoReply == [raised |-> FALSE, msg |-> "", form |-> "none", items |-> <<>>]

NoResponse ==
    [status |-> 0, media_type |-> "", campaigns |-> <<>>, rows |-> <<>>,
     detail |-> <<>>, errors |-> {}]

\* str(e) of an HTTPException: "<status>: <detail>" where the installed
\* framework defines __str__ for it, and the empty string where it does not
\* (the exception is built with keyword arguments only, so its args are
\* empty).  The source pins no framework version: both are possible.
StrHTTPException(detail) ==
    IF str_blank THEN <<>> ELSE <<ToString(HTTP_ERROR), ": ">> \o detail

\* detail of the HTTPException of generate_email_content
VariantErrorDetail(error) == <<"Error generating email variant: ", error>>

CampaignErrorDetail_NoName(account_name, inner) ==
    <<"Error generating campaign: ">> \o inner

\* detail of the HTTPException of generate_campaign
CampaignErrorDetail(account_name, inner) ==
    <<"Error generating campaign for ", account_name, ": ">> \o inner

\* detail of the HTTPException of generate_campaigns
CampaignsErrorDetail(inner) == <<"Error generating campaigns: ">> \o inner

\* detail of the HTTPException of export_campaigns_csv
ExportErrorDetail(inner) == <<"Error exporting campaigns to CSV: ">> \o inner

\* The detail the caller gets when the try block fails with `error` while
\* generating for `account_name`: each enclosing except clause wraps the
\* str() of the exception it caught.
ErrorDetail(ep, account_name, error) ==
    LET d1 == VariantErrorDetail(error)
        d2 == CampaignErrorDetail(account_name, StrHTTPException(d1))
        d3 == CampaignsErrorDetail(StrHTTPException(d2))
    IN IF ep = "export" THEN ExportErrorDetail(StrHTTPException(d3)) ELSE d3

ErrorResponse(ep, account_name, error) ==
    [NoResponse EXCEPT !.status = HTTP_ERROR,
                       !.detail = ErrorDetail(ep, account_name, error)]

ValidationResponse(errors) == [NoResponse EXCEPT !.status = 422, !.errors = errors]

\* ---------------------------------------------------------- CSV export
Header == <<"Account Name", "Email Number", "Variant", "Subject", "Body", "Call to Action">>

CsvRow(account_name, email_idx, variant_idx, variant) ==
    <<account_name, "Email " \o ToString(email_idx), "Variant " \o ToString(variant_idx),
      variant.subject, variant.body, variant.call_to_action>>

RECURSIVE Flatten(_)
\* the concatenation of a sequence of sequences
Flatten(ss) == IF Len(ss) = 0 THEN <<>> ELSE ss[1] \o Flatten(Tail(ss))

\* the rows of one email: enumerate(email.variants, 1)
EmailRows(account_name, email_idx, email) ==
    [v \in 1..Len(email.variants) |-> CsvRow(account_name, email_idx, v, email.variants[v])]

\* the rows of one campaign: enumerate(campaign.emails, 1)
CampaignRows(campaign) ==
    Flatten([e \in 1..Len(campaign.emails) |->
                EmailRows(campaign.account_name, e, campaign.emails[e])])

CsvRows_NoHeader(cs) == Flatten([c \in 1..Len(cs) |-> CampaignRows(cs[c])])

\* everything export_campaigns_csv writes: the header, then the data rows
CsvRows(cs) == <<Header>> \o Flatten([c \in 1..Len(cs) |-> CampaignRows(cs[c])])

\* The response of a request whose generation completed with campaigns cs.
SuccessResponse(ep, cs) ==
    IF ep = "export"
    THEN [NoResponse EXCEPT !.status = 200, !.media_type = "text/csv", !.rows = CsvRows(cs)]
    ELSE [NoResponse EXCEPT !.status = 200, !.media_type = "application/json",
                            !.campaigns = cs]

\* ------------------------------------------------- the request bodies
Ana == [name |-> "Ana", email |-> << <<"ana">>, <<"acme", "com">> >>,
        job_title |-> "CTO", group |-> Absent]

Bob == [name |-> "Bob", email |-> << <<"bob", "b">>, <<"bolt", "co", "uk">> >>,
        job_title |-> "CFO", group |-> "B"]

Zed == [name |-> "Zed", email |-> << <<"zed">>, <<"zeta", "org">> >>,
        job_title |-> "Intern", group |-> "A"]

\* The k-th account of a body: odd and even ones differ in every field.
AccountAt(k) ==
    IF k % 2 = 1
    THEN [account_name |-> "Acme " \o ToString(k), industry |-> "Tech",
          pain_points |-> <<"cost", "churn">>, contacts |-> <<Ana>>,
          campaign_objective |-> "awareness", interest |-> "high",
          tone |-> Absent, language |-> "English"]
    ELSE [account_name |-> "Bolt " \o ToString(k), industry |-> "Retail",
          pain_points |-> <<"downtime", "">>, contacts |-> <<Bob>>,
          campaign_objective |-> "upselling", interest |-> Absent,
          tone |-> "formal", language |-> "French"]

\* The same account with another configured tone, another name, address and
\* group for its first contact, and one contact more.
Recast(a) ==
    [a EXCEPT !.tone = "enthusiastic",
              !.contacts = << [name |-> "Eve",
                               email |-> << <<"eve">>, <<"example", "net">> >>,
                               job_title |-> a.contacts[1].job_title,
                               group |-> "B"],
                              Zed >>]

Body(k, n) == [accounts |-> [j \in 1..k |-> AccountAt(j)], number_of_emails |-> n]

RecastBody(k, n) ==
    [accounts |-> [j \in 1..k |-> Recast(AccountAt(j))], number_of_emails |-> n]

\* Bodies the validator accepts.
GoodBodies ==
    {Body(k, n) : k \in 1..MaxAccounts, n \in 1..MaxEmails}
    \cup {RecastBody(k, n) : k \in 1..MaxAccounts, n \in 1..MaxEmails}
    \cup { [Body(1, 1) EXCEPT !.accounts[1].pain_points =
                                  [j \in 1..PAIN_POINTS_MAX |-> "pain " \o ToString(j)],
                              !.accounts[1].account_name = Rep("n", ACCOUNT_NAME_MAX),
                              !.accounts[1].industry = Rep("i", INDUSTRY_MAX),
                              !.accounts[1].language = Rep("l", LANGUAGE_MAX),
                              !.accounts[1].contacts[1].name = Rep("c", CONTACT_NAME_MAX),
                              !.accounts[1].contacts[1].job_title = Rep("j", JOB_TITLE_MAX)] }

\* Bodies that break one constraint each.
BadBodies ==
    { [Body(1, 1) EXCEPT !.accounts = <<>>],
      Body(ACCOUNTS_MAX + 1, 1),
      [Body(1, 1) EXCEPT !.accounts[1].pain_points = <<>>],
      [Body(1, 1) EXCEPT !.accounts[1].pain_points =
                             [j \in 1..(PAIN_POINTS_MAX + 1) |-> "pain " \o ToString(j)]],
      [Body(2, 1) EXCEPT !.accounts[2].contacts = <<>>],
      [Body(1, 2) EXCEPT !.accounts[1].contacts[1].email = << <<"ana", "acme", "com">> >>],
      [Body(2, 1) EXCEPT !.accounts[2].contacts[1].email = << <<"bob">>, <<"bolt">> >>],
      [Body(1, 1) EXCEPT !.accounts[1].contacts[1].email = << <<"">>, <<"acme", "com">> >>],
      Body(1, 0),
      Body(1, -1),
      Body(2, EMAILS_MAX + 1),
      [Body(1, 1) EXCEPT !.accounts[1].account_name = ""],
      [Body(1, 1) EXCEPT !.accounts[1].account_name = Rep("n", ACCOUNT_NAME_MAX + 1)],
      [Body(1, 1) EXCEPT !.accounts[1].industry = ""],
      [Body(1, 1) EXCEPT !.accounts[1].industry = Rep("i", INDUSTRY_MAX + 1)],
      [Body(1, 1) EXCEPT !.accounts[1].language = ""],
      [Body(1, 1) EXCEPT !.accounts[1].language = Rep("l", LANGUAGE_MAX + 1)],
      [Body(1, 1) EXCEPT !.accounts[1].contacts[1].name = ""],
      [Body(1, 1) EXCEPT !.accounts[1].contacts[1].name = Rep("c", CONTACT_NAME_MAX + 1)],
      [Body(1, 1) EXCEPT !.accounts[1].contacts[1].job_title = ""],
      [Body(1, 1) EXCEPT !.accounts[1].contacts[1].job_title = Rep("j", JOB_TITLE_MAX + 1)],
      [Body(1, 1) EXCEPT !.accounts[1].campaign_objective = "sales"],
      [Body(1, 1) EXCEPT !.accounts[1].interest = "none"],
      [Body(1, 1) EXCEPT !.accounts[1].tone = "angry"],
      [Body(1, 1) EXCEPT !.accounts[1].contacts[1].group = "C"] }

Bodies == GoodBodies \cup BadBodies

\* ------------------------------------------------------------- actions
Locals0 ==
    /\ p = 0 /\ i = 0 /\ t = 0
    /\ variants = <<>> /\ emails = <<>> /\ campaigns = <<>>

Init ==
    /\ raw \in Bodies
    /\ endpoint \in Endpoints
    /\ str_blank \in BOOLEAN
    /\ request = NoRequest
    /\ pc = "received"
    /\ Locals0
    /\ calls = <<>> /\ outs = <<>> /\ reply = NoReply
    /\ response = NoResponse
    /\ served = 1

\* The handler returns or raises: its locals and the request object are gone.
Finish(resp) ==
    /\ response' = resp
    /\ pc' = "done"
    /\ request' = NoRequest
    /\ p' = 0 /\ i' = 0 /\ t' = 0
    /\ variants' = <<>> /\ emails' = <<>> /\ campaigns' = <<>>

\* The body breaks a constraint: the framework answers 422 and the handler
\* is never entered.
RejectRequest ==
    /\ pc = "received"
    /\ RequestErrors(raw) # {}
    /\ response' = ValidationResponse(RequestErrors(raw))
    /\ pc' = "done"
    /\ UNCHANGED <<raw, endpoint, request, p, i, t, variants, emails, campaigns,
                   calls, outs, reply, str_blank, served>>

\* The body is valid: the handler is entered with the CampaignRequest built
\* from it (export_campaigns_csv calls generate_campaigns at once), and
\* generate_campaigns starts its loop over request.accounts.
AcceptRequest ==
    /\ pc = "received"
    /\ RequestErrors(raw) = {}
    /\ request' = ParseRequest(raw)
    /\ pc' = "campaign"
    /\ p' = 1
    /\ campaigns' = <<>>
    /\ UNCHANGED <<raw, endpoint, i, t, variants, emails, calls, outs, reply,
                   response, str_blank, served>>

\* generate_campaign up to its loop over the steps: every contact of the
\* account gets random.choice(["A", "B"]) as its group.
AssignGroups ==
    /\ pc = "campaign"
    /\ \E g \in [1..Len(request.accounts[p].contacts) -> Groups] :
          request' = [request EXCEPT !.accounts[p].contacts =
                         [k \in 1..Len(request.accounts[p].contacts) |->
                             [request.accounts[p].contacts[k] EXCEPT !.group = g[k]]]]
    /\ emails' = <<>>
    /\ i' = 1
    /\ t' = 1
    /\ variants' = <<>>
    /\ pc' = "calling"
    /\ UNCHANGED <<raw, endpoint, p, campaigns, calls, outs, reply, response,
                   str_blank, served>>

\* generate_email_content builds the prompt for the current tone and calls
\* client.generate, which blocks the handler until it returns or raises.
SendPrompt ==
    /\ pc = "calling"
    /\ calls' = Append(calls, [account |-> p, step |-> i, tone |-> Tones[t],
                               prompt |-> Prompt(request.accounts[p], i,
                                                 request.number_of_emails, Tones[t])])
    /\ pc' = "awaiting"
    /\ UNCHANGED <<raw, endpoint, request, p, i, t, variants, emails, campaigns,
                   outs, reply, response, str_blank, served>>

\* The call returned a text the try block turns into an EmailVariant.  The
\* variant is appended; at the end of the tone loop the email is appended; at
\* the end of the step loop the campaign is appended; after the last account
\* the response is built.
ReturnOk ==
    /\ pc = "awaiting"
    /\ \E out \in Outcomes(Len(calls)) :
        LET r == TryVariant(out)
            vs == AppendVariant(variants, r.variant)
            es == Append(emails, [variants |-> vs])
            cs == Append(campaigns,
                         [account_name |-> request.accounts[p].account_name, emails |-> es])
        IN /\ r.ok
           /\ reply' = out
           /\ outs' = Append(outs, r)
           /\ IF t < Len(Tones)
              THEN /\ t' = t + 1
                   /\ variants' = vs
                   /\ pc' = "calling"
                   /\ UNCHANGED <<request, p, i, emails, campaigns, response>>
              ELSE IF i < request.number_of_emails
              THEN /\ i' = i + 1
                   /\ t' = 1
                   /\ variants' = <<>>
                   /\ emails' = es
                   /\ pc' = "calling"
                   /\ UNCHANGED <<request, p, campaigns, response>>
              ELSE IF p < Len(request.accounts)
              THEN /\ p' = p + 1
                   /\ campaigns' = cs
                   /\ pc' = "campaign"
                   /\ UNCHANGED <<request, i, t, variants, emails, response>>
              ELSE Finish(SuccessResponse(endpoint, cs))
    /\ UNCHANGED <<raw, endpoint, calls, str_blank, served>>

\* The variant of ReturnFail that tries the same prompt again instead of
\* raising.
ReturnFail_Retry ==
    /\ pc = "awaiting"
    /\ \E out \in Outcomes(Len(calls)) :
        LET r == TryVariant(out)
        IN /\ ~r.ok
           /\ reply' = out
           /\ outs' = Append(outs, r)
           /\ pc' = "calling"
    /\ UNCHANGED <<raw, endpoint, request, p, i, t, variants, emails, campaigns,
                   calls, response, str_blank, served>>

\* The call raised, or the try block raised on the text it returned: the
\* HTTPException passes through the except clauses of generate_campaign,
\* generate_campaigns and (on export) export_campaigns_csv to the caller.
ReturnFail ==
    /\ pc = "awaiting"
    /\ \E out \in Outcomes(Len(calls)) :
        LET r == TryVariant(out)
        IN /\ ~r.ok
           /\ reply' = out
           /\ outs' = Append(outs, r)
           /\ Finish(ErrorResponse(endpoint, request.accounts[p].account_name, r.error))
    /\ UNCHANGED <<raw, endpoint, calls, str_blank, served>>

\* The next request arrives: handlers share no state, so everything but the
\* process-wide str() behaviour starts afresh.
NewRequest ==
    /\ pc = "done"
    /\ served < MaxRequests
    /\ served' = served + 1
    /\ raw' \in Bodies
    /\ endpoint' \in Endpoints
    /\ request' = NoRequest
    /\ pc' = "received"
    /\ p' = 0 /\ i' = 0 /\ t' = 0
    /\ variants' = <<>> /\ emails' = <<>> /\ campaigns' = <<>>
    /\ calls' = <<>> /\ outs' = <<>> /\ reply' = NoReply
    /\ response' = NoResponse
    /\ UNCHANGED str_blank

Next ==
    \/ RejectRequest
    \/ AcceptRequest
    \/ AssignGroups
    \/ SendPrompt
    \/ ReturnOk
    \/ ReturnFail
    \/ NewRequest

Spec == Init /\ [][Next]_vars

\* ---------------------------------------------------------- properties
Accounts == Len(raw.accounts)

Steps == raw.number_of_emails

Succeeded == pc = "done" /\ response.status = 200

\* The position, among the calls of a request with n steps, of the call for
\* account q, step e and the v-th tone.
CallIndex(q, e, v, n) == ((q - 1) * n + (e - 1)) * 2 + v

\* The account, step and tone of the k-th call of a request with n steps.
CallAt(k, n) ==
    [account |-> ((k - 1) \div (2 * n)) + 1,
     step |-> (((k - 1) % (2 * n)) \div 2) + 1,
     tone |-> IF (k - 1) % 2 = 0 THEN "formal" ELSE "casual"]

Target(call) == [account |-> call.account, step |-> call.step, tone |-> call.tone]

\* The campaigns the answers in `answers` make for body r.
CampaignsFrom(r, answers) ==
    [q \in 1..Len(r.accounts) |->
        [account_name |-> r.accounts[q].account_name,
         emails |-> [e \in 1..r.number_of_emails |->
            [variants |-> [v \in 1..2 |->
                answers[CallIndex(q, e, v, r.number_of_emails)].variant]]]]]

\* C1: a valid request all of whose calls returned a text that parses gets a
\* CampaignResponse with one campaign per account, each with number_of_emails
\* emails, each email with exactly 2 variants.
C1_ResponseShape ==
    (/\ pc = "done"
     /\ endpoint = "generate"
     /\ RequestErrors(raw) = {}
     /\ \A k \in 1..Len(outs) : outs[k].ok)
    => /\ response.status = 200
       /\ Len(response.campaigns) = Accounts
       /\ \A q \in 1..Len(response.campaigns) :
            /\ Len(response.campaigns[q].emails) = Steps
            /\ \A e \in 1..Len(response.campaigns[q].emails) :
                 Len(response.campaigns[q].emails[e].variants) = 2

C1_Witness ==
    /\ Succeeded
    /\ endpoint = "generate"
    /\ Accounts = 2
    /\ Steps = 2
    /\ Len(response.campaigns) = 2

\* C2: in a successful CampaignResponse the campaign at position q carries
\* the name of input account q, its email e holds the results of step e, and
\* variant 1 of it is what the formal call for (q, e) produced, variant 2 what
\* the casual call did.
C2_Positional ==
    (Succeeded /\ endpoint = "generate")
    => /\ Len(calls) = Accounts * Steps * 2
       /\ Len(outs) = Len(calls)
       /\ \A k \in 1..Len(calls) : Target(calls[k]) = CallAt(k, Steps)
       /\ response.campaigns = CampaignsFrom(raw, outs)

C2_Witness ==
    /\ Succeeded
    /\ endpoint = "generate"
    /\ Accounts = 2
    /\ Steps = 2
    /\ response.campaigns[2].account_name = "Bolt 2"
    /\ response.campaigns[2].emails[1].variants[2].subject = "Subject 6"

\* C3: the calls of a request are issued one at a time, a call only after the
\* one before has returned, in the order account, step, formal before casual;
\* a successful request on either endpoint has issued all
\* accounts x number_of_emails x 2 of them, whatever was served before.
C3_CallOrder ==
    /\ Len(calls) = Len(outs) + (IF pc = "awaiting" THEN 1 ELSE 0)
    /\ \A k \in 1..Len(calls) : Target(calls[k]) = CallAt(k, Steps)
    /\ Succeeded => Len(calls) = Accounts * Steps * 2

C3_Witness ==
    /\ Succeeded
    /\ endpoint = "export"
    /\ served = 2
    /\ Accounts = 2
    /\ Steps = 2
    /\ Len(calls) = 8

\* What the service did cannot be used: it raised, or what it returned is no
\* mapping with the keys subject, body and call_to_action.
Unusable(r) ==
    /\ r # NoReply
    /\ \/ r.raised
       \/ r.form # "dict"
       \/ ~({"subject", "body", "call_to_action"} \subseteq DOMAIN r.items)

\* C4: once a call fails or returns an unusable text, the request ends with
\* HTTP 500 and carries neither campaigns nor CSV rows, whatever was completed
\* before, on either endpoint.
C4_NoPartialResult ==
    Unusable(reply)
    => /\ pc = "done"
       /\ response.status = 500
       /\ response.campaigns = <<>>
       /\ response.rows = <<>>
       /\ response.media_type = ""

C4_Witness ==
    /\ Unusable(reply)
    /\ pc = "done"
    /\ endpoint = "export"
    /\ calls[Len(calls)].account = 2
    /\ Len(outs) >= 3

\* The violations C5 lists.
ListedViolation(r) ==
    \/ Len(r.accounts) = 0
    \/ Len(r.accounts) = 11
    \/ \E q \in 1..Len(r.accounts) :
          \/ Len(r.accounts[q].pain_points) \in {0, 6}
          \/ Len(r.accounts[q].contacts) = 0
          \/ \E c \in 1..Len(r.accounts[q].contacts) :
                ~EmailStr(r.accounts[q].contacts[c].email)
    \/ r.number_of_emails < 1
    \/ r.number_of_emails > 10

\* C5: a request with one of the listed violations is answered with a
\* validation error before generation begins: it issues no external call and
\* no contact's group is reassigned (no CampaignRequest is ever built).
C5_RejectedBeforeGeneration ==
    ListedViolation(raw)
    => /\ calls = <<>>
       /\ request = NoRequest
       /\ pc \in {"received", "done"}
       /\ pc = "done" => (response.status = 422 /\ response.errors # {})

C5_Witness ==
    /\ pc = "done"
    /\ Len(raw.accounts) = 11
    /\ response.status = 422
    /\ "accounts" \in response.errors

InGenerateCampaign == pc \in {"campaign", "calling", "awaiting"}

\* The bounds of the data model that the validator enforces on an account.
EnforcedBounds(a) ==
    /\ Len(a.pain_points) \in 1..5
    /\ Len(a.contacts) >= 1
    /\ Len(a.account_name) \in 1..200
    /\ Len(a.industry) \in 1..100
    /\ Len(a.language) \in 1..200
    /\ \A c \in 1..Len(a.contacts) :
          /\ Len(a.contacts[c].name) \in 1..100
          /\ Len(a.contacts[c].job_title) \in 1..100

\* C6 as stated: every account that reaches generate_campaign satisfies the
\* bounds and each of its pain points is a non-empty string.
C6_AsStated ==
    InGenerateCampaign
    => /\ EnforcedBounds(request.accounts[p])
       /\ \A k \in 1..Len(request.accounts[p].pain_points) :
             Len(request.accounts[p].pain_points[k]) >= 1

\* C6: every account that reaches generate_campaign has 1 to 5 pain points
\* (strings of any length, the empty one included), at least one contact,
\* account_name, industry and language within their length bounds, and
\* contacts with name and job_title within theirs.
C6_BoundsDownstream ==
    InGenerateCampaign => EnforcedBounds(request.accounts[p])

C6_Witness ==
    /\ pc = "calling"
    /\ p = 2
    /\ "" \in Range(request.accounts[p].pain_points)

\* C7: a successful export has the header as its first row, then one row per
\* (account, step, variant) in that nesting order, labelled "Email e" and
\* "Variant v", carrying the variant's subject, body and call to action.
C7_CsvRows ==
    (Succeeded /\ endpoint = "export")
    => /\ Len(response.rows) = 1 + Accounts * Steps * 2
       /\ Len(outs) = Accounts * Steps * 2
       /\ response.rows[1] =
             <<"Account Name", "Email Number", "Variant", "Subject", "Body",
               "Call to Action">>
       /\ \A q \in 1..Accounts : \A e \in 1..Steps : \A v \in 1..2 :
             response.rows[1 + CallIndex(q, e, v, Steps)] =
                <<raw.accounts[q].account_name,
                  "Email " \o ToString(e),
                  "Variant " \o ToString(v),
                  outs[CallIndex(q, e, v, Steps)].variant.subject,
                  outs[CallIndex(q, e, v, Steps)].variant.body,
                  outs[CallIndex(q, e, v, Steps)].variant.call_to_action>>

C7_Witness ==
    /\ Succeeded
    /\ endpoint = "export"
    /\ Accounts = 2
    /\ Steps = 2
    /\ Len(response.rows) = 9
    /\ response.rows[9] = <<"Bolt 2", "Email 2", "Variant 2", "Subject 8", "Body 8", "Action 8">>

GenerationFailed == pc = "done" /\ response.status = 500

FailedCall == calls[Len(calls)]

C9_NoRetry ==
    /\ \A k \in 1..Len(outs) :
          ~outs[k].ok => (k = Len(outs) /\ k = Len(calls) /\ GenerationFailed)
    /\ \A j, k \in 1..Len(calls) : j # k => Target(calls[j]) # Target(calls[k])
    /\ GenerationFailed
          => Len(calls) = CallIndex(FailedCall.account, FailedCall.step,
                                    IF FailedCall.tone = "formal" THEN 1 ELSE 2, Steps)

C9_Witness ==
    /\ GenerationFailed
    /\ Accounts = 2
    /\ Steps = 2
    /\ Len(calls) = 3
    /\ FailedCall.tone = "formal"
    /\ ~outs[3].ok

\* Two bodies agree on everything a prompt embeds.
SamePromptInputs(r1, r2) ==
    /\ r1.number_of_emails = r2.number_of_emails
    /\ Len(r1.accounts) = Len(r2.accounts)
    /\ \A q \in 1..Len(r1.accounts) :
          LET a1 == r1.accounts[q]
              a2 == r2.accounts[q]
          IN /\ a1.account_name = a2.account_name
             /\ a1.industry = a2.industry
             /\ a1.pain_points = a2.pain_points
             /\ a1.campaign_objective = a2.campaign_objective
             /\ a1.contacts[1].job_title = a2.contacts[1].job_title
             /\ Default(a1.interest, "medium") = Default(a2.interest, "medium")
             /\ a1.language = a2.language

====
